---- MODULE Spec2Model ----
(***************************************************************************)
(* A model of script.js, the timetable viewer: the time utilities, the     *)
(* schedule store and its asynchronous load, the schedule query engine,    *)
(* the Now-view renderer and the view navigation.                          *)
(*                                                                         *)
(* JavaScript strings are modelled as sequences of one-character strings,  *)
(* so that split, trim, toLowerCase, includes and Number are computed and  *)
(* not assumed.  The em dash (U+2014) is the one-element token "U+2014".   *)
(* JavaScript values of mixed type are tagged records: [t |-> "null"],     *)
(* [t |-> "undefined"], [t |-> "num", v |-> n], [t |-> "str", v |-> s],    *)
(* [t |-> "arr", v |-> <<...>>] and [t |-> "obj", v |-> [key |-> value]].  *)
(* A timetable entry is a plain record with the fields of the JSON object. *)
(***************************************************************************)
EXTENDS Integers, Sequences, FiniteSets, TLC

VARIABLES
    TIMETABLE,          \* script.js:69, the schedule store
    IS_LOADING,         \* script.js:70
    currentViewIndex,   \* script.js:465
    pc,                 \* the position of init(): "start", "fetching" (awaiting
                        \* fetch), "parsing" (awaiting res.json()), "running"
                        \* (init has returned), "crashed" (init has thrown)
    resource,           \* what fetch("timetable.json") is going to yield
    alerts,             \* the number of load-failed notices prepended to <main>
    skeletons,          \* the loading placeholders in the document
    hidden,             \* the views whose classList contains "hidden"
    timeouts,           \* the pending 350 ms hide callbacks, oldest first
    interval,           \* whether the one-minute setInterval is registered
    clock,              \* the wall clock read by new Date(): [day, minutes]
    nowDom,             \* what renderNowView() rendered last
    dailyDom,           \* what renderDailyView() rendered last
    weeklyDom,          \* what renderWeeklyView() rendered last
    args,               \* the arguments of a direct call of a query function
    call,               \* the query function called last ("none" before any)
    ret                 \* what that call returned

vars == <<TIMETABLE, IS_LOADING, currentViewIndex, pc, resource, alerts, skeletons,
          hidden, timeouts, interval, clock, nowDom, dailyDom, weeklyDom,
          args, call, ret>>

\* the state of the page, all but the store and the record of the direct calls
page == <<IS_LOADING, currentViewIndex, pc, resource, alerts, skeletons,
          hidden, timeouts, interval, clock, nowDom, dailyDom, weeklyDom>>

----------------------------------------------------------------------------
(* Bounds of the model *)

\* the largest number of entries in a store (over all its days)
MaxEntries == 2

\* a click is taken only while fewer than this many hide callbacks are pending
MaxPending == 2

\* the largest minute count handed to formatDelta
MaxMins == 720

----------------------------------------------------------------------------
(* JavaScript values *)

NULL == [t |-> "null"]
UNDEFINED == [t |-> "undefined"]
Num(n) == [t |-> "num", v |-> n]
Arr(s) == [t |-> "arr", v |-> s]
Obj(f) == [t |-> "obj", v |-> f]

\* ToBoolean of a tagged value: null, undefined and 0 are falsy
Truthy(x) ==
    /\ x.t # "null"
    /\ x.t # "undefined"
    /\ (x.t = "num" => x.v # 0)
    /\ (x.t = "str" => x.v # <<>>)

\* Array.isArray
IsArray(x) == x.t = "arr"

\* obj[key]: a property read; undefined on a missing key or on a primitive
Get(x, key) ==
    IF x.t = "obj" /\ key \in DOMAIN x.v THEN x.v[key] ELSE UNDEFINED

----------------------------------------------------------------------------
(* String primitives *)

UpperChars == <<"A","B","C","D","E","F","G","H","I","J","K","L","M",
                "N","O","P","Q","R","S","T","U","V","W","X","Y","Z">>
LowerChars == <<"a","b","c","d","e","f","g","h","i","j","k","l","m",
                "n","o","p","q","r","s","t","u","v","w","x","y","z">>
Digits == <<"0","1","2","3","4","5","6","7","8","9">>
WhiteSpace == {" ", "\t", "\n"}

ToLowerChar(c) ==
    IF \E i \in 1..26 : UpperChars[i] = c
    THEN LowerChars[CHOOSE i \in 1..26 : UpperChars[i] = c]
    ELSE c

\* String.prototype.toLowerCase
ToLowerCase(s) == [i \in 1..Len(s) |-> ToLowerChar(s[i])]

\* String.prototype.trim
Trim(s) ==
    LET keep == {i \in 1..Len(s) : s[i] \notin WhiteSpace}
    IN  IF keep = {} THEN <<>>
        ELSE LET lo == CHOOSE i \in keep : \A j \in keep : i <= j
                 hi == CHOOSE i \in keep : \A j \in keep : j <= i
             IN  SubSeq(s, lo, hi)

\* String.prototype.includes
Includes(s, sub) ==
    \E i \in 1..(Len(s) - Len(sub) + 1) : SubSeq(s, i, i + Len(sub) - 1) = sub

\* String.prototype.split with a one-character separator
RECURSIVE Split(_, _)
Split(s, sep) ==
    LET hits == {i \in 1..Len(s) : s[i] = sep}
    IN  IF hits = {} THEN <<s>>
        ELSE LET k == CHOOSE i \in hits : \A j \in hits : i <= j
             IN  <<SubSeq(s, 1, k - 1)>> \o Split(SubSeq(s, k + 1, Len(s)), sep)

DigitValue(c) == (CHOOSE i \in 1..10 : Digits[i] = c) - 1

\* Number(str) on a string of decimal digits (Number("") is 0)
RECURSIVE Number(_)
Number(s) ==
    IF s = <<>> THEN 0
    ELSE 10 * Number(SubSeq(s, 1, Len(s) - 1)) + DigitValue(s[Len(s)])

----------------------------------------------------------------------------
(* Constants & utilities, script.js:9-48 *)

S0930 == <<"0","9",":","3","0","-","1","0",":","3","0">>
S1030 == <<"1","0",":","3","0","-","1","1",":","3","0">>
S1130 == <<"1","1",":","3","0","-","1","2",":","3","0">>
S1230 == <<"1","2",":","3","0","-","1","3",":","3","0">>
S1330 == <<"1","3",":","3","0","-","1","4",":","3","0">>
S1430 == <<"1","4",":","3","0","-","1","5",":","3","0">>
S1530 == <<"1","5",":","3","0","-","1","6",":","3","0">>
S1630 == <<"1","6",":","3","0","-","1","7",":","3","0">>

\* a grid whose fourth slot ends ten minutes early
SLOTS_gap ==
    <<S0930, S1030, S1130,
      <<"1","2",":","3","0","-","1","3",":","2","0">>,
      S1330, S1430, S1530, S1630>>

SLOTS == <<S0930, S1030, S1130, S1230, S1330, S1430, S1530, S1630>>

timeStrToMinutes(hhmm) ==
    LET parts == Split(hhmm, ":")
    IN  Number(parts[1]) * 60 + Number(parts[2])

parseRange(rangeStr) ==
    LET parts == Split(rangeStr, "-")
    IN  [start |-> timeStrToMinutes(parts[1]), end |-> timeStrToMinutes(parts[2])]

getCurrentMinutes(date) == date.minutes

dayNames == << <<"S","u","n","d","a","y">>,
               <<"M","o","n","d","a","y">>,
               <<"T","u","e","s","d","a","y">>,
               <<"W","e","d","n","e","s","d","a","y">>,
               <<"T","h","u","r","s","d","a","y">>,
               <<"F","r","i","d","a","y">>,
               <<"S","a","t","u","r","d","a","y">> >>

getDayNameFromDate(date) == dayNames[date.day + 1]

----------------------------------------------------------------------------
(* Core logic, script.js:110-184.  Each function reads the global          *)
(* TIMETABLE; the operators take it as their first parameter tt.           *)

\* (item.subject || '').trim().toLowerCase()
subjOf(item) ==
    LET raw == IF "subject" \in DOMAIN item THEN item.subject ELSE <<>>
    IN  ToLowerCase(Trim(raw))

DASH == <<"-">>
EMDASH == <<"U+2014">>
NOCLASS == <<"n","o"," ","c","l","a","s","s">>
FREE == <<"f","r","e","e">>

\* findCurrentClass with the end of the interval included
findCurrentClass_closedEnd(tt, dayName, minutes) ==
    IF ~Truthy(tt) THEN NULL
    ELSE LET key == ToLowerCase(dayName)
             dayArr == Get(tt, key)
         IN  IF ~IsArray(dayArr) THEN NULL
             ELSE LET hits == {i \in 1..Len(dayArr.v) :
                                 /\ minutes >= parseRange(dayArr.v[i].time).start
                                 /\ minutes <= parseRange(dayArr.v[i].time).end}
                  IN  IF hits = {} THEN NULL
                      ELSE dayArr.v[CHOOSE i \in hits : \A j \in hits : i <= j]

findCurrentClass(tt, dayName, minutes) ==
    IF ~Truthy(tt) THEN NULL
    ELSE LET key == ToLowerCase(dayName)
             dayArr == Get(tt, key)
         IN  IF ~IsArray(dayArr) THEN NULL
             ELSE LET hits == {i \in 1..Len(dayArr.v) :
                                 /\ minutes >= parseRange(dayArr.v[i].time).start
                                 /\ minutes < parseRange(dayArr.v[i].time).end}
                  IN  IF hits = {} THEN NULL
                      ELSE dayArr.v[CHOOSE i \in hits : \A j \in hits : i <= j]

\* isReal without the "free" test
isReal_noFree(item) ==
    LET subj == subjOf(item)
    IN  /\ subj # <<>>
        /\ subj # DASH
        /\ subj # EMDASH
        /\ ~Includes(subj, NOCLASS)

\* script.js:132-133, the isReal of getUpcomingClasses
isReal(item) ==
    LET subj == subjOf(item)
    IN  /\ subj # <<>>
        /\ subj # DASH
        /\ subj # EMDASH
        /\ ~Includes(subj, NOCLASS)
        /\ ~Includes(subj, FREE)

\* script.js:130-135, the loop that pushes { ...item, start } onto out
RECURSIVE upcomingOut(_, _, _)
upcomingOut(list, minutes, cutoff) ==
    IF list = <<>> THEN <<>>
    ELSE LET item == Head(list)
             start == parseRange(item.time).start
             rest == upcomingOut(Tail(list), minutes, cutoff)
         IN  IF isReal(item) /\ start > minutes /\ start <= cutoff
             THEN <<[start |-> start] @@ item>> \o rest
             ELSE rest

\* Array.prototype.sort with (a, b) => a.start - b.start: a stable sort
RECURSIVE sortByStart(_)
sortByStart(out) ==
    IF out = <<>> THEN <<>>
    ELSE LET sorted == sortByStart(SubSeq(out, 1, Len(out) - 1))
             x == out[Len(out)]
             k == Cardinality({i \in 1..Len(sorted) : sorted[i].start <= x.start})
         IN  SubSeq(sorted, 1, k) \o <<x>> \o SubSeq(sorted, k + 1, Len(sorted))

getUpcomingClasses(tt, dayName, minutes, cutoff) ==
    IF ~Truthy(tt) THEN <<>>
    ELSE LET key == ToLowerCase(dayName)
             dayArr == Get(tt, key)
         IN  IF ~IsArray(dayArr) THEN <<>>
             ELSE sortByStart(upcomingOut(dayArr.v, minutes, cutoff))

\* the slot scan with start >= minutes
nextSlotIndex_atStart(minutes) ==
    LET later == {i \in 1..Len(SLOTS) : parseRange(SLOTS[i]).start >= minutes}
    IN  IF later = {} THEN 0 ELSE CHOOSE i \in later : \A j \in later : i <= j

\* script.js:146-150: the first slot of SLOTS that starts after minutes, 0 if none
nextSlotIndex(minutes) ==
    LET later == {i \in 1..Len(SLOTS) : parseRange(SLOTS[i]).start > minutes}
    IN  IF later = {} THEN 0 ELSE CHOOSE i \in later : \A j \in later : i <= j

\* script.js:154-155
isPlaceholderNext(match) ==
    LET subj == subjOf(match)
    IN  subj = DASH \/ subj = EMDASH \/ Includes(subj, NOCLASS)

\* getNextClassInfo reading the day as TIMETABLE[key] || []
getNextClassInfo_defaultList(tt, dayName, minutes) ==
    IF ~Truthy(tt) THEN [type |-> "none"]
    ELSE LET key == ToLowerCase(dayName)
             got == Get(tt, key)
             list == IF Truthy(got) THEN got ELSE Arr(<<>>)
         IN  IF ~IsArray(list) THEN [type |-> "none"]
             ELSE LET n == nextSlotIndex(minutes)
                  IN  IF n = 0 THEN [type |-> "none"]
                      ELSE LET nextSlot == SLOTS[n]
                               nextStart == parseRange(nextSlot).start
                               found == {i \in 1..Len(list.v) : list.v[i].time = nextSlot}
                           IN  IF found = {}
                               THEN [type |-> "free", start |-> nextStart, slot |-> nextSlot]
                               ELSE LET match == list.v[CHOOSE i \in found : \A j \in found : i <= j]
                                    IN  IF isPlaceholderNext(match)
                                        THEN [type |-> "free", start |-> nextStart, slot |-> nextSlot]
                                        ELSE [type |-> "class", start |-> nextStart,
                                              slot |-> nextSlot, item |-> match]

getNextClassInfo(tt, dayName, minutes) ==
    IF ~Truthy(tt) THEN [type |-> "none"]
    ELSE LET key == ToLowerCase(dayName)
             list == Get(tt, key)
         IN  IF ~IsArray(list) THEN [type |-> "none"]
             ELSE LET n == nextSlotIndex(minutes)
                  IN  IF n = 0 THEN [type |-> "none"]
                      ELSE LET nextSlot == SLOTS[n]
                               nextStart == parseRange(nextSlot).start
                               found == {i \in 1..Len(list.v) : list.v[i].time = nextSlot}
                           IN  IF found = {}
                               THEN [type |-> "free", start |-> nextStart, slot |-> nextSlot]
                               ELSE LET match == list.v[CHOOSE i \in found : \A j \in found : i <= j]
                                    IN  IF isPlaceholderNext(match)
                                        THEN [type |-> "free", start |-> nextStart, slot |-> nextSlot]
                                        ELSE [type |-> "class", start |-> nextStart,
                                              slot |-> nextSlot, item |-> match]

\* the subject test of getTodayLastClassEnd with the "free" test of isReal
isRealLast_noFree(item) ==
    LET subj == subjOf(item)
    IN  /\ subj # <<>>
        /\ subj # DASH
        /\ subj # EMDASH
        /\ ~Includes(subj, NOCLASS)
        /\ ~Includes(subj, FREE)

\* script.js:177-178
isRealLast(item) ==
    LET subj == subjOf(item)
    IN  /\ subj # <<>>
        /\ subj # DASH
        /\ subj # EMDASH
        /\ ~Includes(subj, NOCLASS)

\* script.js:175-183, the loop that keeps the largest end in last
RECURSIVE lastEndLoop(_, _)
lastEndLoop(list, last) ==
    IF list = <<>> THEN last
    ELSE LET item == Head(list)
             end == parseRange(item.time).end
         IN  IF isRealLast(item) /\ (last = NULL \/ end > last.v)
             THEN lastEndLoop(Tail(list), Num(end))
             ELSE lastEndLoop(Tail(list), last)

\* returns NULL or Num(end)
getTodayLastClassEnd(tt, dayName) ==
    IF ~Truthy(tt) THEN NULL
    ELSE LET key == ToLowerCase(dayName)
             list == Get(tt, key)
         IN  IF ~IsArray(list) \/ Len(list.v) = 0 THEN NULL
             ELSE lastEndLoop(list.v, NULL)

\* String(n) for a natural number n
RECURSIVE NumToStr(_)
NumToStr(n) ==
    IF n < 10 THEN <<Digits[n + 1]>>
    ELSE NumToStr(n \div 10) \o <<Digits[(n % 10) + 1]>>

\* formatDelta that prints nothing for a zero part, the minutes included
formatDelta_dropZero(mins) ==
    LET h == mins \div 60
        m == mins % 60
    IN  IF h # 0 /\ m # 0 THEN NumToStr(h) \o <<"h", " ">> \o NumToStr(m) \o <<"m">>
        ELSE IF h # 0 THEN NumToStr(h) \o <<"h">>
        ELSE IF m # 0 THEN NumToStr(m) \o <<"m">>
        ELSE <<>>

formatDelta(mins) ==
    LET h == mins \div 60
        m == mins % 60
    IN  IF h # 0 /\ m # 0 THEN NumToStr(h) \o <<"h", " ">> \o NumToStr(m) \o <<"m">>
        ELSE IF h # 0 THEN NumToStr(h) \o <<"h">>
        ELSE NumToStr(m) \o <<"m">>

----------------------------------------------------------------------------
(* Rendering, script.js:201-340.  renderNowView reads TIMETABLE (tt) and   *)
(* new Date() (date); the record it yields is what the Now view then       *)
(* shows: the paragraph (content), the badge, the current class, and the   *)
(* lower card with its title and list.  until is the cutoff it passed to   *)
(* getUpcomingClasses, NULL when it did not call it.                       *)

\* script.js:235-242
badgeOf(nextInfo, minutes) ==
    IF nextInfo.type = "class"
    THEN LET delta == IF nextInfo.start - minutes > 0 THEN nextInfo.start - minutes ELSE 0
         IN  [class |-> "badge-primary",
              text |-> <<"N","e","x","t"," ","i","n"," ">> \o formatDelta(delta)]
    ELSE [class |-> "badge-neutral", text |-> <<"N","o"," ","c","l","a","s","s"," ","n","e","x","t">>]

\* the lower card with the 17:30 cutoff passed on as it is (no Math.min
\* with the end of the last class)
lowerCard_fixedCutoff(tt, dayName, minutes) ==
    LET cutoff == 17 * 60 + 30
    IN  IF ~(Truthy(tt) /\ Truthy(Get(tt, ToLowerCase(dayName))))
        THEN [card |-> "none", title |-> "", upcoming |-> <<>>, until |-> NULL]
        ELSE IF minutes >= cutoff
        THEN [card |-> "done", title |-> "All done for today", upcoming |-> <<>>, until |-> NULL]
        ELSE LET lastEnd == getTodayLastClassEnd(tt, dayName)
             IN  IF lastEnd = NULL \/ minutes >= lastEnd.v
                 THEN [card |-> "done",
                       title |-> IF lastEnd = NULL THEN "No classes today"
                                 ELSE "All done for today",
                       upcoming |-> <<>>, until |-> NULL]
                 ELSE LET upcoming == getUpcomingClasses(tt, dayName, minutes, cutoff)
                      IN  IF Len(upcoming) = 0
                          THEN [card |-> "done", title |-> "All done for today",
                                upcoming |-> <<>>, until |-> Num(cutoff)]
                          ELSE [card |-> "upcoming", title |-> "Upcoming Today",
                                upcoming |-> upcoming, until |-> Num(cutoff)]

\* script.js:264-329, the lower card
lowerCard(tt, dayName, minutes) ==
    LET cutoff == 17 * 60 + 30
    IN  IF ~(Truthy(tt) /\ Truthy(Get(tt, ToLowerCase(dayName))))
        THEN [card |-> "none", title |-> "", upcoming |-> <<>>, until |-> NULL]
        ELSE IF minutes >= cutoff
        THEN [card |-> "done", title |-> "All done for today", upcoming |-> <<>>, until |-> NULL]
        ELSE LET lastEnd == getTodayLastClassEnd(tt, dayName)
             IN  IF lastEnd = NULL \/ minutes >= lastEnd.v
                 THEN [card |-> "done",
                       title |-> IF lastEnd = NULL THEN "No classes today"
                                 ELSE "All done for today",
                       upcoming |-> <<>>, until |-> NULL]
                 ELSE LET until == IF cutoff < lastEnd.v THEN cutoff ELSE lastEnd.v
                          upcoming == getUpcomingClasses(tt, dayName, minutes, until)
                      IN  IF Len(upcoming) = 0
                          THEN [card |-> "done", title |-> "All done for today",
                                upcoming |-> <<>>, until |-> Num(until)]
                          ELSE [card |-> "upcoming", title |-> "Upcoming Today",
                                upcoming |-> upcoming, until |-> Num(until)]

renderNowView(tt, date) ==
    LET dayName == getDayNameFromDate(date)
        minutes == getCurrentMinutes(date)
        top ==
            IF ~Truthy(tt)
            THEN [content |-> "Timetable not loaded.", badge |-> NULL, current |-> NULL]
            ELSE IF ~Truthy(Get(tt, ToLowerCase(dayName)))
            THEN [content |-> "No timetable for day.", badge |-> NULL, current |-> NULL]
            ELSE LET current == findCurrentClass(tt, dayName, minutes)
                     nextInfo == getNextClassInfo(tt, dayName, minutes)
                 IN  [content |-> IF current # NULL THEN ""
                                  ELSE "No ongoing class right now.",
                      badge |-> badgeOf(nextInfo, minutes),
                      current |-> current]
    IN  [shown |-> "now", dayName |-> dayName, minutes |-> minutes,
         content |-> top.content, badge |-> top.badge, current |-> top.current,
         lower |-> lowerCard(tt, dayName, minutes)]

NoDom == [shown |-> "nothing"]

\* script.js:342-406: [dom, threw].  list.find is not a function when the
\* day's value is no array, and the schedule block is cleared by then.
renderDailyView(tt, name) ==
    LET list == IF tt = NULL THEN UNDEFINED ELSE Get(tt, ToLowerCase(name))
    IN  IF ~Truthy(list) THEN [dom |-> "message", threw |-> FALSE]
        ELSE IF ~IsArray(list) THEN [dom |-> "cleared", threw |-> TRUE]
        ELSE [dom |-> "schedule", threw |-> FALSE]

\* script.js:426
weekDays == <<dayNames[2], dayNames[3], dayNames[4], dayNames[5], dayNames[6], dayNames[7]>>

\* script.js:408-458: [dom, threw].  TIMETABLE[day] || [] is no array when
\* the day's value is a truthy non-array, and only the heading is there then.
renderWeeklyView(tt) ==
    IF ~Truthy(tt) THEN [dom |-> "notLoaded", threw |-> FALSE]
    ELSE IF \E i \in 1..Len(weekDays) :
                LET list == Get(tt, ToLowerCase(weekDays[i]))
                IN  Truthy(list) /\ ~IsArray(list)
    THEN [dom |-> "heading", threw |-> TRUE]
    ELSE [dom |-> "table", threw |-> FALSE]

----------------------------------------------------------------------------
(* The data: well-formed entries and the stores made of them *)

S1000 == <<"1","0",":","0","0","-","1","1",":","3","0">>
S1730 == <<"1","7",":","3","0","-","1","8",":","3","0">>

eMath    == [time |-> S0930, subject |-> <<"M","a","t","h">>,
             room |-> "R1", faculty |-> "F1"]
eLab     == [time |-> S1000, subject |-> <<"L","a","b">>,
             room |-> "R2", faculty |-> "F2"]
eDash    == [time |-> S1030, subject |-> <<" ","-"," ">>,
             room |-> "", faculty |-> ""]
eEmpty   == [time |-> S1030, subject |-> <<" "," ">>,
             room |-> "", faculty |-> ""]
eFree    == [time |-> S1130, subject |-> <<"F","r","e","e"," ","L","a","b">>,
             room |-> "R2", faculty |-> "F2"]
eEmDash  == [time |-> S1130, subject |-> <<"U+2014">>,
             room |-> "", faculty |-> ""]
eNoClass == [time |-> S1630, subject |-> <<"N","O"," ","C","L","A","S","S">>,
             room |-> "", faculty |-> ""]
eLate    == [time |-> S1730, subject |-> <<"S","e","m","i","n","a","r">>,
             room |-> "R3", faculty |-> "F3"]

EntryPool == {eMath, eLab, eDash, eEmpty, eFree, eEmDash, eNoClass, eLate}

monday == <<"m","o","n","d","a","y">>
tuesday == <<"t","u","e","s","d","a","y">>

\* the day schedules of at most n entries
Schedules(n) == UNION {[1..k -> EntryPool] : k \in 0..n}

\* a store: monday's schedule, with or without a tuesday of one fixed entry
Stores ==
    {Obj(<<>>)}
    \cup {Obj(monday :> Arr(s)) : s \in Schedules(MaxEntries)}
    \cup {Obj(monday :> Arr(s) @@ tuesday :> Arr(<<eLate>>)) :
             s \in Schedules(MaxEntries - 1)}

\* what fetch("timetable.json") and res.json() can yield
GoodResources == {[kind |-> "json", body |-> st] : st \in Stores}
FailedResources == {[kind |-> "reject"], [kind |-> "notok"], [kind |-> "badjson"]}

----------------------------------------------------------------------------
(* Direct calls of the query functions (they are globals of the page) *)

QueryDays == {dayNames[2], <<"T","U","E","S","D","A","Y">>, dayNames[1]}
QueryMinutes == {540, 570, 600, 630, 990, 1050}
QueryCutoffs == {600, 17 * 60 + 30}

InitQuery ==
    /\ resource \in GoodResources \cup {[kind |-> "reject"]}
    /\ TIMETABLE = IF resource.kind = "json" THEN resource.body ELSE NULL
    /\ alerts = IF resource.kind = "json" THEN 0 ELSE 1
    /\ IS_LOADING = FALSE
    /\ pc = "running"
    /\ currentViewIndex = 0
    /\ skeletons = {}
    /\ hidden = {"dailyView", "weeklyView"}
    /\ timeouts = <<>>
    /\ interval = TRUE
    /\ clock = [day |-> 1, minutes |-> 600]
    /\ dailyDom = renderDailyView(TIMETABLE, monday).dom
    /\ weeklyDom = renderWeeklyView(TIMETABLE).dom
    /\ args \in [dayName : QueryDays, minutes : QueryMinutes, cutoff : QueryCutoffs]
    /\ call = "none"
    /\ ret = NULL
    /\ nowDom = renderNowView(TIMETABLE, clock)

CallFindCurrentClass ==
    /\ call' = "findCurrentClass"
    /\ ret' = findCurrentClass(TIMETABLE, args.dayName, args.minutes)
    /\ UNCHANGED <<TIMETABLE, page, args>>

\* getUpcomingClasses that sets item.start on the stored entries and sorts
\* the stored array itself
CallGetUpcomingClasses_inPlace ==
    /\ call' = "getUpcomingClasses"
    /\ ret' = Arr(getUpcomingClasses(TIMETABLE, args.dayName, args.minutes, args.cutoff))
    /\ TIMETABLE' =
          IF Truthy(TIMETABLE) /\ IsArray(Get(TIMETABLE, ToLowerCase(args.dayName)))
          THEN LET key == ToLowerCase(args.dayName)
                   dayArr == TIMETABLE.v[key].v
                   marked == [i \in 1..Len(dayArr) |->
                                 [start |-> parseRange(dayArr[i].time).start] @@ dayArr[i]]
               IN  Obj([TIMETABLE.v EXCEPT ![key] = Arr(sortByStart(marked))])
          ELSE TIMETABLE
    /\ UNCHANGED <<page, args>>

CallGetUpcomingClasses ==
    /\ call' = "getUpcomingClasses"
    /\ ret' = Arr(getUpcomingClasses(TIMETABLE, args.dayName, args.minutes, args.cutoff))
    /\ UNCHANGED <<TIMETABLE, page, args>>

CallGetNextClassInfo ==
    /\ call' = "getNextClassInfo"
    /\ ret' = getNextClassInfo(TIMETABLE, args.dayName, args.minutes)
    /\ UNCHANGED <<TIMETABLE, page, args>>

CallGetTodayLastClassEnd ==
    /\ call' = "getTodayLastClassEnd"
    /\ ret' = getTodayLastClassEnd(TIMETABLE, args.dayName)
    /\ UNCHANGED <<TIMETABLE, page, args>>

NextQuery ==
    \/ CallFindCurrentClass
    \/ CallGetUpcomingClasses
    \/ CallGetNextClassInfo
    \/ CallGetTodayLastClassEnd

SpecQuery == InitQuery /\ [][NextQuery]_vars

\* Direct calls of the utilities: formatDelta on a minute count, parseRange
\* on a slot of the grid
InitUtil ==
    /\ InitQuery
    /\ TIMETABLE = Obj(monday :> Arr(<<eMath, eDash>>))
    /\ args = [dayName |-> dayNames[2], minutes |-> 600, cutoff |-> 17 * 60 + 30]

CallFormatDelta ==
    /\ \E mins \in 0..MaxMins :
          /\ args' = [mins |-> mins]
          /\ ret' = [t |-> "str", v |-> formatDelta(mins)]
    /\ call' = "formatDelta"
    /\ UNCHANGED <<TIMETABLE, page>>

CallParseRange ==
    /\ \E i \in 1..Len(SLOTS) :
          /\ args' = [rangeStr |-> SLOTS[i]]
          /\ ret' = parseRange(SLOTS[i])
    /\ call' = "parseRange"
    /\ UNCHANGED <<TIMETABLE, page>>

NextUtil ==
    \/ CallFormatDelta
    \/ CallParseRange

SpecUtil == InitUtil /\ [][NextUtil]_vars

----------------------------------------------------------------------------
(* Data fetching, navigation and initialisation, script.js:69-104, 465-611 *)

viewOrder == <<"nowView", "dailyView", "weeklyView">>

\* the stores of the page's runs: none, the one of spec.md section 8, one
\* with two days
PageStores ==
    {Obj(<<>>),
     Obj(monday :> Arr(<<eMath, eDash>>)),
     Obj(monday :> Arr(<<eLab>>) @@ tuesday :> Arr(<<eLate>>))}

\* JSON documents that are no mapping from day names to entry sequences
MalformedBodies == {NULL, Num(42), Obj(monday :> [t |-> "str", v |-> <<"x">>])}

PageResources ==
    FailedResources \cup {[kind |-> "json", body |-> b] : b \in PageStores \cup MalformedBodies}

\* the instants of the day at which the clock is read
ClockMinutes == <<540, 600, 630, 990, 17 * 60 + 30>>

\* the value of the day dropdown when renderDailyView() reads it (the
\* dropdown is in index.html)
SelectDays == {monday, tuesday}

\* script.js:468-539: the target loses "hidden", every other view that is
\* not hidden gets a hide callback 350 ms later
showView(targetId) ==
    /\ hidden' = hidden \ {targetId}
    /\ timeouts' = timeouts \o SelectSeq(viewOrder, LAMBDA id : id # targetId /\ id \notin hidden)
    /\ currentViewIndex' = (CHOOSE i \in 1..3 : viewOrder[i] = targetId) - 1

\* script.js:541-569: init wires the listeners, then loadTimetable sets
\* IS_LOADING, shows the skeletons and awaits fetch
InitStart ==
    /\ pc = "start"
    /\ pc' = "fetching"
    /\ IS_LOADING' = TRUE
    /\ skeletons' = {"sk-now", "sk-daily", "sk-weekly"}
    /\ UNCHANGED <<TIMETABLE, currentViewIndex, resource, alerts, hidden, timeouts,
                   interval, clock, nowDom, dailyDom, weeklyDom, args, call, ret>>

\* script.js:571-584, the rest of init once loadTimetable has returned (it
\* runs in the same task as the end of loadTimetable, on the store that
\* loadTimetable has just assigned)
InitContinue ==
    /\ showView("nowView")
    /\ nowDom' = renderNowView(TIMETABLE', clock)
    /\ \E name \in SelectDays :
          LET d == renderDailyView(TIMETABLE', name)
              w == renderWeeklyView(TIMETABLE')
          IN  /\ dailyDom' = d.dom
              /\ weeklyDom' = IF d.threw THEN weeklyDom ELSE w.dom
              /\ pc' = IF d.threw \/ w.threw THEN "crashed" ELSE "running"
              /\ interval' = ~(d.threw \/ w.threw)

\* script.js:81-103, the catch and the finally of loadTimetable
LoadFailed ==
    /\ TIMETABLE' = NULL
    /\ alerts' = alerts + 1
    /\ IS_LOADING' = FALSE
    /\ skeletons' = {}

\* loadTimetable that sets TIMETABLE to an empty mapping once the response
\* is there, before the document is parsed
FetchSettles_presetStore ==
    /\ pc = "fetching"
    /\ IF resource.kind \in {"reject", "notok"}
       THEN LoadFailed /\ InitContinue
       ELSE /\ pc' = "parsing"
            /\ TIMETABLE' = Obj(<<>>)
            /\ UNCHANGED <<IS_LOADING, currentViewIndex, alerts, skeletons,
                           hidden, timeouts, interval, nowDom, dailyDom, weeklyDom>>
    /\ UNCHANGED <<resource, clock, args, call, ret>>

\* script.js:76-79: fetch settles.  A rejection or a response that is not ok
\* goes to the catch; otherwise loadTimetable awaits res.json()
FetchSettles ==
    /\ pc = "fetching"
    /\ IF resource.kind \in {"reject", "notok"}
       THEN LoadFailed /\ InitContinue
       ELSE /\ pc' = "parsing"
            /\ UNCHANGED <<TIMETABLE, IS_LOADING, currentViewIndex, alerts, skeletons,
                           hidden, timeouts, interval, nowDom, dailyDom, weeklyDom>>
    /\ UNCHANGED <<resource, clock, args, call, ret>>

\* script.js:80: res.json() settles.  A rejection goes to the catch;
\* otherwise TIMETABLE is assigned the parsed document, whatever it is
JsonSettles ==
    /\ pc = "parsing"
    /\ IF resource.kind = "badjson"
       THEN LoadFailed
       ELSE /\ TIMETABLE' = resource.body
            /\ IS_LOADING' = FALSE
            /\ skeletons' = {}
            /\ UNCHANGED alerts
    /\ InitContinue
    /\ UNCHANGED <<resource, clock, args, call, ret>>

\* script.js:546-549
ClickNow ==
    /\ pc # "start"
    /\ Len(timeouts) < MaxPending
    /\ showView("nowView")
    /\ nowDom' = renderNowView(TIMETABLE, clock)
    /\ skeletons' = skeletons \ {"sk-now"}
    /\ UNCHANGED <<TIMETABLE, IS_LOADING, pc, resource, alerts, interval, clock,
                   dailyDom, weeklyDom, args, call, ret>>

\* script.js:550-554
ClickDaily ==
    /\ pc # "start"
    /\ Len(timeouts) < MaxPending
    /\ showView("dailyView")
    /\ \E name \in SelectDays : dailyDom' = renderDailyView(TIMETABLE, name).dom
    /\ skeletons' = skeletons \ {"sk-daily"}
    /\ UNCHANGED <<TIMETABLE, IS_LOADING, pc, resource, alerts, interval, clock,
                   nowDom, weeklyDom, args, call, ret>>

\* script.js:555-558
ClickWeekly ==
    /\ pc # "start"
    /\ Len(timeouts) < MaxPending
    /\ showView("weeklyView")
    /\ weeklyDom' = renderWeeklyView(TIMETABLE).dom
    /\ skeletons' = skeletons \ {"sk-weekly"}
    /\ UNCHANGED <<TIMETABLE, IS_LOADING, pc, resource, alerts, interval, clock,
                   nowDom, dailyDom, args, call, ret>>

\* script.js:562-565: the day dropdown changes, the daily view is rendered
\* for the chosen day
SelectChange ==
    /\ pc # "start"
    /\ \E name \in SelectDays : dailyDom' = renderDailyView(TIMETABLE, name).dom
    /\ skeletons' = skeletons \ {"sk-daily"}
    /\ UNCHANGED <<TIMETABLE, IS_LOADING, currentViewIndex, pc, resource, alerts,
                   hidden, timeouts, interval, clock, nowDom, weeklyDom,
                   args, call, ret>>

\* script.js:507-511: the oldest pending hide callback runs
HideTimeout ==
    /\ timeouts # <<>>
    /\ hidden' = hidden \cup {Head(timeouts)}
    /\ timeouts' = Tail(timeouts)
    /\ UNCHANGED <<TIMETABLE, IS_LOADING, currentViewIndex, pc, resource, alerts,
                   skeletons, interval, clock, nowDom, dailyDom, weeklyDom,
                   args, call, ret>>

\* an interval callback that renders the Now view whether or not it is hidden
IntervalTick_always ==
    /\ interval
    /\ nowDom' = renderNowView(TIMETABLE, clock)
    /\ UNCHANGED <<TIMETABLE, IS_LOADING, currentViewIndex, pc, resource, alerts,
                   skeletons, hidden, timeouts, interval, clock, dailyDom, weeklyDom,
                   args, call, ret>>

\* script.js:580-584: the interval callback
IntervalTick ==
    /\ interval
    /\ nowDom' = IF "nowView" \notin hidden THEN renderNowView(TIMETABLE, clock) ELSE nowDom
    /\ UNCHANGED <<TIMETABLE, IS_LOADING, currentViewIndex, pc, resource, alerts,
                   skeletons, hidden, timeouts, interval, clock, dailyDom, weeklyDom,
                   args, call, ret>>

\* time passes: the clock moves on to a later minute of the day
TimePasses ==
    /\ \E i \in 1..Len(ClockMinutes) :
          /\ ClockMinutes[i] > clock.minutes
          /\ clock' = [clock EXCEPT !.minutes = ClockMinutes[i]]
    /\ UNCHANGED <<TIMETABLE, IS_LOADING, currentViewIndex, pc, resource, alerts,
                   skeletons, hidden, timeouts, interval, nowDom, dailyDom, weeklyDom,
                   args, call, ret>>

Init ==
    /\ TIMETABLE = NULL
    /\ IS_LOADING = FALSE
    /\ currentViewIndex = 0
    /\ pc = "start"
    /\ resource \in PageResources
    /\ alerts = 0
    /\ skeletons = {}
    /\ hidden \in SUBSET {"nowView", "dailyView", "weeklyView"}
    /\ timeouts = <<>>
    /\ interval = FALSE
    /\ clock = [day |-> 1, minutes |-> ClockMinutes[1]]
    /\ nowDom = NoDom
    /\ dailyDom = "nothing"
    /\ weeklyDom = "nothing"
    /\ args = [dayName |-> dayNames[2], minutes |-> 600, cutoff |-> 17 * 60 + 30]
    /\ call = "none"
    /\ ret = NULL

Next ==
    \/ InitStart
    \/ FetchSettles
    \/ JsonSettles
    \/ ClickNow
    \/ ClickDaily
    \/ ClickWeekly
    \/ SelectChange
    \/ HideTimeout
    \/ IntervalTick
    \/ TimePasses

Spec == Init /\ [][Next]_vars

\* The page on the Now view: the load of any store of the data is about
\* to settle (res.json() is pending), on a Sunday, a Monday or a Tuesday,
\* and the user stays on the Now view.
InitNow ==
    /\ TIMETABLE = NULL
    /\ IS_LOADING = TRUE
    /\ currentViewIndex = 0
    /\ pc = "parsing"
    /\ resource \in GoodResources
    /\ alerts = 0
    /\ skeletons = {"sk-now", "sk-daily", "sk-weekly"}
    /\ hidden = {"dailyView", "weeklyView"}
    /\ timeouts = <<>>
    /\ interval = FALSE
    /\ clock \in [day : {0, 1, 2}, minutes : {ClockMinutes[i] : i \in 1..Len(ClockMinutes)}]
    /\ nowDom = NoDom
    /\ dailyDom = "nothing"
    /\ weeklyDom = "nothing"
    /\ args = [dayName |-> dayNames[2], minutes |-> 600, cutoff |-> 17 * 60 + 30]
    /\ call = "none"
    /\ ret = NULL

NextNow ==
    \/ JsonSettles
    \/ ClickNow
    \/ IntervalTick
    \/ TimePasses

SpecNow == InitNow /\ [][NextNow]_vars

----------------------------------------------------------------------------
(* What the claims speak of, stated without the code's own functions *)

\* the day is a key of the store and holds a sequence of entries
DayPresent(tt, dayName) ==
    /\ tt.t = "obj"
    /\ ToLowerCase(dayName) \in DOMAIN tt.v
    /\ tt.v[ToLowerCase(dayName)].t = "arr"

DayEntries(tt, dayName) == tt.v[ToLowerCase(dayName)].v

\* the interval of each time string of the data, in minutes since midnight
IntervalOf(time) ==
    IF \E i \in 1..Len(SLOTS) : SLOTS[i] = time
    THEN LET i == CHOOSE k \in 1..Len(SLOTS) : SLOTS[k] = time
         IN  [start |-> 570 + 60 * (i - 1), end |-> 630 + 60 * (i - 1)]
    ELSE IF time = S1000 THEN [start |-> 600, end |-> 690]
    ELSE [start |-> 1050, end |-> 1110]

\* the trimmed, lower-cased subject
Label(e) == ToLowerCase(Trim(e.subject))

IsPlaceholder(e) ==
    \/ Label(e) = <<>>
    \/ Label(e) = <<"-">>
    \/ Label(e) = <<"U+2014">>
    \/ Includes(Label(e), <<"n","o"," ","c","l","a","s","s">>)

SaysFree(e) == Includes(Label(e), <<"f","r","e","e">>)

IsCurrent(e, now) == IntervalOf(e.time).start <= now /\ now < IntervalOf(e.time).end

\* C1: findCurrentClass returns an entry iff some entry of the day has
\* start <= now < end, and then the first such entry in stored order; an
\* entry that ends exactly at now is not returned.
C1_FindCurrentFirstHalfOpen ==
    (call = "findCurrentClass" /\ DayPresent(TIMETABLE, args.dayName)) =>
        LET list == DayEntries(TIMETABLE, args.dayName)
            now == args.minutes
            cur == {i \in 1..Len(list) : IsCurrent(list[i], now)}
        IN  /\ (ret # NULL) <=> (cur # {})
            /\ cur # {} => ret = list[CHOOSE i \in cur : \A j \in cur : i <= j]
            /\ \A i \in 1..Len(list) : IntervalOf(list[i].time).end = now => ret # list[i]

\* two entries are current, the later-starting one is stored first and wins
C1_Witness ==
    /\ call = "findCurrentClass"
    /\ DayPresent(TIMETABLE, args.dayName)
    /\ LET list == DayEntries(TIMETABLE, args.dayName)
       IN  /\ Len(list) = 2
           /\ IsCurrent(list[1], args.minutes)
           /\ IsCurrent(list[2], args.minutes)
           /\ IntervalOf(list[1].time).start > IntervalOf(list[2].time).start
           /\ ret = list[1]

Qualifies(e, now, cutoff) ==
    /\ ~IsPlaceholder(e)
    /\ ~SaysFree(e)
    /\ now < IntervalOf(e.time).start
    /\ IntervalOf(e.time).start <= cutoff

Augmented(e) == [start |-> IntervalOf(e.time).start] @@ e

\* C2: getUpcomingClasses returns, sorted ascending by start, exactly the
\* day's entries with now < start <= cutoff whose subject is real (not
\* empty, not a dash, not containing "no class" or "free").
C2_UpcomingSortedExact ==
    (call = "getUpcomingClasses" /\ DayPresent(TIMETABLE, args.dayName)) =>
        LET list == DayEntries(TIMETABLE, args.dayName)
            want == {j \in 1..Len(list) : Qualifies(list[j], args.minutes, args.cutoff)}
        IN  /\ \A i \in 1..(Len(ret.v) - 1) : ret.v[i].start <= ret.v[i + 1].start
            /\ Len(ret.v) = Cardinality(want)
            /\ \A j \in want :
                  Cardinality({i \in 1..Len(ret.v) : ret.v[i] = Augmented(list[j])})
                    = Cardinality({k \in want : list[k] = list[j]})

\* two entries qualify and are stored latest first: the output reorders them
C2_Witness ==
    /\ call = "getUpcomingClasses"
    /\ DayPresent(TIMETABLE, args.dayName)
    /\ LET list == DayEntries(TIMETABLE, args.dayName)
       IN  /\ Len(list) = 2
           /\ Len(ret.v) = 2
           /\ IntervalOf(list[1].time).start > IntervalOf(list[2].time).start
           /\ ret.v = <<Augmented(list[2]), Augmented(list[1])>>

\* the grid slot that starts first after now, 0 when none does
GridNext(now) ==
    LET later == {i \in 1..8 : 570 + 60 * (i - 1) > now}
    IN  IF later = {} THEN 0 ELSE CHOOSE i \in later : \A j \in later : i <= j

\* C3: for a day present in the store getNextClassInfo reports the first
\* slot of the 8-slot grid that starts strictly after now, whatever the
\* day's entries; it returns none exactly when now >= 990.
C3_NextSlotFromGrid ==
    (call = "getNextClassInfo" /\ DayPresent(TIMETABLE, args.dayName)) =>
        /\ (ret.type = "none") <=> (args.minutes >= 990)
        /\ ret.type # "none" =>
              /\ ret.slot = SLOTS[GridNext(args.minutes)]
              /\ ret.start = 570 + 60 * (GridNext(args.minutes) - 1)
        /\ \A i \in 1..8 :
              (570 + 60 * (i - 1) <= args.minutes /\ args.minutes < 630 + 60 * (i - 1)) =>
                  IF i = 8 THEN ret.type = "none" ELSE ret.slot = SLOTS[i + 1]

\* now is the very start of the first slot, the day holds an entry of that
\* slot, and the second slot is reported
C3_Witness ==
    /\ call = "getNextClassInfo"
    /\ DayPresent(TIMETABLE, args.dayName)
    /\ args.minutes = 570
    /\ \E i \in 1..Len(DayEntries(TIMETABLE, args.dayName)) :
          DayEntries(TIMETABLE, args.dayName)[i].time = S0930
    /\ ret.type # "none"
    /\ ret.slot = S1030

\* C4: once a next slot s is found, the result is free if the day has no
\* entry whose time equals s or if that entry's subject is empty, a dash or
\* contains "no class"; otherwise it is class with the matched entry (also
\* for a subject that contains "free").
C4_NextFreeOrClass ==
    (call = "getNextClassInfo" /\ DayPresent(TIMETABLE, args.dayName)
        /\ ret.type # "none") =>
        LET list == DayEntries(TIMETABLE, args.dayName)
            found == {i \in 1..Len(list) : list[i].time = ret.slot}
        IN  IF found = {} THEN ret.type = "free"
            ELSE LET match == list[CHOOSE i \in found : \A j \in found : i <= j]
                 IN  IF IsPlaceholder(match) THEN ret.type = "free"
                     ELSE ret.type = "class" /\ ret.item = match

\* C5: getTodayLastClassEnd returns the largest end over the day's entries
\* whose subject is not empty, not a dash and does not contain "no class"
\* (a subject containing "free" counts); it returns absent when the store is
\* absent, the day is missing or the day has no such entry.
C5_LastEndIsMaxOverReal ==
    call = "getTodayLastClassEnd" =>
        IF TIMETABLE = NULL \/ ~DayPresent(TIMETABLE, args.dayName) THEN ret = NULL
        ELSE LET list == DayEntries(TIMETABLE, args.dayName)
                 real == {i \in 1..Len(list) : ~IsPlaceholder(list[i])}
             IN  IF real = {} THEN ret = NULL
                 ELSE /\ ret.t = "num"
                      /\ \E i \in real : ret.v = IntervalOf(list[i].time).end
                      /\ \A i \in real : IntervalOf(list[i].time).end <= ret.v

\* the entry that ends last is stored first, a "free" entry follows it
C5_Witness ==
    /\ call = "getTodayLastClassEnd"
    /\ DayPresent(TIMETABLE, args.dayName)
    /\ LET list == DayEntries(TIMETABLE, args.dayName)
       IN  /\ Len(list) = 2
           /\ ~IsPlaceholder(list[1])
           /\ SaysFree(list[2])
           /\ IntervalOf(list[1].time).end > IntervalOf(list[2].time).end
           /\ ret = Num(IntervalOf(list[1].time).end)

\* C9: with the store absent, or the day not a key of the store, every
\* query function returns its absent or empty result, for every now.
C9_AbsentStoreOrDay ==
    (TIMETABLE = NULL \/ ToLowerCase(args.dayName) \notin DOMAIN TIMETABLE.v) =>
        /\ call = "findCurrentClass" => ret = NULL
        /\ call = "getUpcomingClasses" => ret = Arr(<<>>)
        /\ call = "getNextClassInfo" => ret = [type |-> "none"]
        /\ call = "getTodayLastClassEnd" => ret = NULL

\* a loaded store without the day, asked for the next class before the
\* last slot starts
C9_Witness ==
    /\ call = "getNextClassInfo"
    /\ TIMETABLE # NULL
    /\ ToLowerCase(args.dayName) \notin DOMAIN TIMETABLE.v
    /\ DOMAIN TIMETABLE.v # {}
    /\ args.minutes < 990
    /\ ret = [type |-> "none"]

\* the store as the load left it
AsLoaded == IF resource.kind = "json" THEN resource.body ELSE NULL

\* C10: the query functions leave the store as it was loaded (same entries,
\* same order, no added field), so after any sequence of calls a call
\* returns what it returns on the store as loaded.
C10_QueriesLeaveStore ==
    /\ TIMETABLE = AsLoaded
    /\ call = "findCurrentClass" =>
          ret = findCurrentClass(AsLoaded, args.dayName, args.minutes)
    /\ call = "getUpcomingClasses" =>
          ret = Arr(getUpcomingClasses(AsLoaded, args.dayName, args.minutes, args.cutoff))
    /\ call = "getNextClassInfo" =>
          ret = getNextClassInfo(AsLoaded, args.dayName, args.minutes)
    /\ call = "getTodayLastClassEnd" =>
          ret = getTodayLastClassEnd(AsLoaded, args.dayName)

\* getUpcomingClasses has returned two entries in another order than the
\* stored one, each with a start field, and the stored entries have none
C10_Witness ==
    /\ call = "getUpcomingClasses"
    /\ DayPresent(TIMETABLE, args.dayName)
    /\ LET list == DayEntries(TIMETABLE, args.dayName)
       IN  /\ Len(ret.v) = 2
           /\ Len(list) = 2
           /\ ret.v[1].time = list[2].time
           /\ ret.v[1].time # list[1].time
           /\ \A i \in 1..2 : "start" \in DOMAIN ret.v[i] /\ "start" \notin DOMAIN list[i]

\* C6: in renderNowView, for a store that holds today's key, the day is
\* shown as finished (the done card, no upcoming list) whenever now >= 1050,
\* or getTodayLastClassEnd is absent, or now >= lastEnd; in every other case
\* getUpcomingClasses is evaluated with the cutoff min(1050, lastEnd).
C6_DayEndDecision ==
    (/\ nowDom.shown = "now"
     /\ Truthy(TIMETABLE)
     /\ Truthy(Get(TIMETABLE, ToLowerCase(nowDom.dayName)))) =>
        LET now == nowDom.minutes
            lastEnd == getTodayLastClassEnd(TIMETABLE, nowDom.dayName)
        IN  IF now >= 1050 \/ lastEnd = NULL \/ now >= lastEnd.v
            THEN /\ nowDom.lower.card = "done"
                 /\ nowDom.lower.upcoming = <<>>
                 /\ nowDom.lower.until = NULL
            ELSE LET bound == IF lastEnd.v < 1050 THEN lastEnd.v ELSE 1050
                 IN  /\ nowDom.lower.until = Num(bound)
                     /\ nowDom.lower.upcoming =
                           getUpcomingClasses(TIMETABLE, nowDom.dayName, now, bound)
                     /\ nowDom.lower.card = IF nowDom.lower.upcoming = <<>> THEN "done"
                                            ELSE "upcoming"

\* a render before 17:30 of a day whose last real class has ended: the done
\* card is there although the day holds entries
C6_Witness ==
    /\ nowDom.shown = "now"
    /\ DayPresent(TIMETABLE, nowDom.dayName)
    /\ nowDom.minutes < 1050
    /\ getTodayLastClassEnd(TIMETABLE, nowDom.dayName) # NULL
    /\ nowDom.minutes >= getTodayLastClassEnd(TIMETABLE, nowDom.dayName).v
    /\ nowDom.lower.card = "done"
    /\ nowDom.lower.title = "All done for today"

\* C7: the store is absent from the start until the load settles, is then
\* the whole loaded document (absent after a failed load) and is not
\* written again; every render, also one that a click triggers while the
\* load is in flight, shows the absent store or the whole loaded one.
C7_StoreAbsentOrWhole ==
    /\ pc \in {"start", "fetching", "parsing"} => TIMETABLE = NULL
    /\ pc \in {"running", "crashed"} => TIMETABLE = AsLoaded
    /\ nowDom.shown = "now" =>
          LET date == [day |-> clock.day, minutes |-> nowDom.minutes]
          IN  nowDom \in {renderNowView(NULL, date), renderNowView(AsLoaded, date)}
    /\ weeklyDom \in {"nothing", renderWeeklyView(NULL).dom, renderWeeklyView(AsLoaded).dom}
    /\ dailyDom \in {"nothing"}
          \cup {renderDailyView(NULL, name).dom : name \in SelectDays}
          \cup {renderDailyView(AsLoaded, name).dom : name \in SelectDays}

\* the Now button was clicked while res.json() was pending on a document
\* that is a store: the render shows the absent store
C7_Witness ==
    /\ pc = "parsing"
    /\ resource.kind = "json"
    /\ resource.body \in PageStores
    /\ TIMETABLE = NULL
    /\ nowDom.shown = "now"
    /\ nowDom.content = "Timetable not loaded."

\* a JSON document that maps day names to sequences
IsMapping(body) ==
    /\ body.t = "obj"
    /\ \A k \in DOMAIN body.v : body.v[k].t = "arr"

\* C8: every load failure (resource unreachable, response not ok, document
\* not parseable, or parseable but no mapping from day names to entry
\* sequences) leaves the store absent and puts up the load-failed notice,
\* and init goes on to render the views.
C8_EveryFailureSurfaced ==
    (/\ pc \in {"running", "crashed"}
     /\ resource.kind = "json" => ~IsMapping(resource.body)) =>
        /\ TIMETABLE = NULL
        /\ alerts >= 1
        /\ pc = "running"
        /\ nowDom.shown = "now"
        /\ dailyDom # "nothing"
        /\ weeklyDom # "nothing"

----------------------------------------------------------------------------
\* the canonical decimal numeral of n: digits only, no leading zero
IsNumeralOf(str, n) ==
    /\ Len(str) >= 1
    /\ \A i \in 1..Len(str) : \E k \in 1..10 : Digits[k] = str[i]
    /\ Len(str) > 1 => str[1] # "0"
    /\ Number(str) = n

\* str is numeral(n) followed by the unit letter
IsPart(str, n, unit) ==
    /\ Len(str) >= 2
    /\ str[Len(str)] = unit
    /\ IsNumeralOf(SubSeq(str, 1, Len(str) - 1), n)

\* C11: for a minute count n >= 0 with h = n div 60 and m = n mod 60,
\* formatDelta gives "{h}h {m}m" when h > 0 and m > 0, "{h}h" when h > 0 and
\* m = 0, "{m}m" when h = 0; never the empty string, and "0m" for 0.
C11_FormatDelta ==
    call = "formatDelta" =>
        LET n == args.mins
            h == n \div 60
            m == n % 60
            out == ret.v
        IN  /\ out # <<>>
            /\ n = 0 => out = <<"0", "m">>
            /\ (h > 0 /\ m > 0) =>
                   \E k \in 2..(Len(out) - 3) :
                      /\ IsPart(SubSeq(out, 1, k), h, "h")
                      /\ out[k + 1] = " "
                      /\ IsPart(SubSeq(out, k + 2, Len(out)), m, "m")
            /\ (h > 0 /\ m = 0) => IsPart(out, h, "h")
            /\ h = 0 => IsPart(out, m, "m")

C11_Witness ==
    /\ call = "formatDelta"
    /\ args.mins = 605
    /\ ret.v = <<"1", "0", "h", " ", "5", "m">>

\* C13: the slot grid is a sequence of exactly 8 intervals; parsed by
\* parseRange each lasts 60 minutes, each ends where the next one starts,
\* the first starts at 570 and the last ends at 1050.  The grid is the same
\* in every state: script.js only reads SLOTS (lines 147, 369, 436, 446, 615),
\* and every parseRange call on a slot yields that slot's interval.
C13_SlotGrid ==
    LET iv == [i \in 1..Len(SLOTS) |-> parseRange(SLOTS[i])]
    IN  /\ Len(SLOTS) = 8
        /\ \A i \in 1..Len(SLOTS) : iv[i].end - iv[i].start = 60
        /\ \A i \in 1..(Len(SLOTS) - 1) : iv[i].end = iv[i + 1].start
        /\ iv[1].start = 570
        /\ iv[Len(SLOTS)].end = 1050
        /\ call = "parseRange" =>
              \E k \in 0..7 : ret = [start |-> 570 + 60 * k, end |-> 630 + 60 * k]

C13_Witness ==
    /\ call = "parseRange"
    /\ args.rangeStr = S1630
    /\ ret = [start |-> 990, end |-> 1050]

----------------------------------------------------------------------------
\* C12: a timer tick that occurs after the user has navigated to the Daily
\* or the Weekly view does not invoke renderNowView, at any interleaving with
\* clicks and hide callbacks.  A step that starts with the Daily or the
\* Weekly view selected and keeps the selection is no click on Now and no
\* part of init, so only a tick can change the Now view in it.
C12_NoRenderOffNow ==
    [][(currentViewIndex # 0 /\ currentViewIndex' = currentViewIndex)
          => nowDom' = nowDom]_vars

\* C12 as the code has it: with the Daily or the Weekly view selected, a
\* tick leaves the Now view alone whenever nowView is hidden, and nowView is
\* hidden as soon as no hide callback is pending; until its hide callback
\* has run (350 ms after the click) a tick still renders it.
C12_NoRenderOnceHidden ==
    /\ [][(currentViewIndex # 0 /\ currentViewIndex' = currentViewIndex
            /\ "nowView" \in hidden) => nowDom' = nowDom]_vars
    /\ []((pc \in {"running", "crashed"} /\ currentViewIndex # 0 /\ timeouts = <<>>)
            => "nowView" \in hidden)

\* the timer is running, the Daily or Weekly view is selected, nowView is
\* hidden and the Now view shows an earlier minute than the clock
C12_Witness ==
    /\ interval
    /\ currentViewIndex # 0
    /\ "nowView" \in hidden
    /\ timeouts = <<>>
    /\ nowDom.shown = "now"
    /\ nowDom.minutes < clock.minutes

\* C14: once init has shown the Now view, after any clicks and hide
\* callbacks in any order, when no hide callback is pending exactly one view
\* is not hidden and it is the view selected last.
C14_LastSelectedVisible ==
    (pc \in {"running", "crashed"} /\ timeouts = <<>>) =>
        {id \in {"nowView", "dailyView", "weeklyView"} : id \notin hidden}
            = {viewOrder[currentViewIndex + 1]}

\* C15: in a render of the Now view for a store that holds today's key,
\* when the badge announces a next class (getNextClassInfo gave a class) the
\* lower card is the Upcoming Today list and that class is in it; the done
\* card ("All done for today" / "No classes today") is not shown with it.
C15_BadgeAgreesWithCard ==
    (/\ nowDom.shown = "now"
     /\ Truthy(TIMETABLE)
     /\ Truthy(Get(TIMETABLE, ToLowerCase(nowDom.dayName)))
     /\ getNextClassInfo(TIMETABLE, nowDom.dayName, nowDom.minutes).type = "class") =>
        LET next == getNextClassInfo(TIMETABLE, nowDom.dayName, nowDom.minutes)
            list == nowDom.lower.upcoming
        IN  /\ nowDom.badge.class = "badge-primary"
            /\ nowDom.lower.card = "upcoming"
            /\ \E i \in 1..Len(list) :
                   /\ list[i].time = next.item.time
                   /\ list[i].subject = next.item.subject

====
